---- MODULE Spec2Model ----
(***************************************************************************)
(* Remote-Job-Executor: a PostgreSQL-backed job queue (classes Job, Queue  *)
(* and Worker).  The model keeps the persisted rows (queue, job, job_log), *)
(* the row locks taken by SELECT ... FOR UPDATE, the in-memory Job objects *)
(* held by dispatched tasks, the in-memory Queue handles and the position  *)
(* of every worker loop.                                                   *)
(***************************************************************************)
EXTENDS Integers, FiniteSets, Sequences, TLC

\* ---------------------------------------------------------------- bounds
MaxJobs == 2
MaxRaceJobs == 1
MaxLeases == 3
MaxAppends == 6
MaxKeepLogs == 3
MaxSweepLogs == 1
MaxThrows == 2

\* ------------------------------------------------------- program constants
DefaultPriority == 0
DefaultMaxAttempts == 1
DefaultKeepLogs == 50
ClientToken == 0

\* ------------------------------------------------------------ value sets
Workers == {1, 2}
JobIds == 1..MaxJobs
Queues == {1, 2}
Handles == {1, 2, 3}
LogCallers == {1, 2, 3}

\* SQL NULL and JavaScript undefined for integer-valued and text-valued fields
NULL == -1
UNDEF == -2
NULLS == "NULL"
UNDEFS == "UNDEF"

\* timestamps: a Date within the stalled timeout of the present (RECENT), or
\* one that the clock has since left behind by more than the timeout (OLD)
RECENT == "recent"
OLD == "old"

\* Queue handles 1 and 2 are two Queue objects with the name of queue 1,
\* handle 3 has the name of queue 2; both workers consume queue 1
HandleQueue(h) == IF h = 3 THEN 2 ELSE 1
WorkerQueue(w) == 1
Concurrency(w) == IF w = 1 THEN 2 ELSE 1

\* the exit codes and failures a remote execution can produce
ExitCodes == {0, 1, 2}
PriorityChoices == {0, 1}
MaxAttemptsChoices == {1, 2}

VARIABLES
  queue,      \* queue rows: [Queues -> [status, paused_at]]; status NONE: no row yet
  handle,     \* Queue objects: [Handles -> [queueId, status, error]]; error is
              \*   what the last add on the object threw
  job,        \* job rows: [JobIds -> row]; row.id = 0 while the id is unused
  rowLock,    \* [JobIds -> BOOLEAN]: a transaction holds the row lock
  jobLog,     \* committed job_log rows: [JobIds -> set of sequence numbers]
  logCall,    \* addLog calls in flight: [LogCallers -> [pc, job, keepLogs, sequence,
              \*   token]]; token: the lease whose executor callback made the call
  worker,     \* Worker objects: [Workers -> [pc, running, activeJobs, wakeUpResolve, sel, token]]
  tasks,      \* dispatched processJob tasks, each with its in-memory Job object
  hist        \* history: counters the claims are stated with

vars == <<queue, handle, job, rowLock, jobLog, logCall, worker, tasks, hist>>

\* ------------------------------------------------------------- job rows
NoRow ==
  [id |-> 0, queue_id |-> 0, status |-> "NONE",
   priority |-> 0, max_attempts |-> 0, attempts_made |-> 0,
   lock_token |-> NULL, processed_on |-> NULLS, finished_on |-> NULLS,
   exit_code |-> NULL, failed_reason |-> NULLS, stack_trace |-> NULLS,
   keep_logs |-> NULL, custom_id |-> NULL]

\* a queue row that has not been created
\* a bag of the recognized job options; UNDEF: the option is not in the bag
NoOptions == [priority |-> UNDEF, maxAttempts |-> UNDEF, keepLogs |-> UNDEF]

\* the bag the Queue constructor takes when no defaultJobOptions are given
BuiltInOptions ==
  [priority |-> DefaultPriority, maxAttempts |-> DefaultMaxAttempts,
   keepLogs |-> DefaultKeepLogs]

\* settings.defaultJobOptions of each Queue object: handles 1 and 3 were
\* constructed without options, handle 2 with a bag of its own
DefaultJobOptions(h) ==
  IF h = 2 THEN [priority |-> 1, maxAttempts |-> 2, keepLogs |-> MaxKeepLogs]
  ELSE BuiltInOptions

NoQueue == [status |-> "NONE", paused_at |-> NULLS, default_job_options |-> NoOptions]

Exists(j) == job[j].id # 0
Terminal(s) == s \in {"COMPLETED", "FAILED", "CANCELLED"}

\* Prisma: a field that is undefined is left out of the UPDATE
Put(v, old) == IF v = UNDEF THEN old ELSE v
PutS(v, old) == IF v = UNDEFS THEN old ELSE v

\* Job.save on an object that has an id: UPDATE job SET ... WHERE id = obj.id
SaveRow(row, obj) ==
  [row EXCEPT !.status = obj.status,
              !.priority = obj.priority,
              !.exit_code = Put(obj.exitCode, @),
              !.max_attempts = obj.maxAttempts,
              !.attempts_made = obj.attemptsMade,
              !.processed_on = PutS(obj.processedOn, @),
              !.finished_on = PutS(obj.finishedOn, @),
              !.failed_reason = PutS(obj.failedReason, @),
              !.stack_trace = PutS(obj.stackTrace, @),
              !.lock_token = Put(obj.lockToken, @),
              !.keep_logs = Put(obj.keepLogs, @),
              !.custom_id = Put(obj.customId, @)]

\* the Job object fetchAndLockNextJobs builds from a returned row
ObjOfRow(row) ==
  [id |-> row.id, status |-> row.status, priority |-> row.priority,
   exitCode |-> row.exit_code, maxAttempts |-> row.max_attempts,
   attemptsMade |-> row.attempts_made, processedOn |-> row.processed_on,
   finishedOn |-> row.finished_on, failedReason |-> row.failed_reason,
   stackTrace |-> row.stack_trace, lockToken |-> row.lock_token,
   keepLogs |-> row.keep_logs, customId |-> row.custom_id]

\* ------------------------------------------------------------- history
\* leases[j]: PENDING -> RUNNING transitions of row j
\* grants[j]: lease calls that returned j in its current PENDING period
\* grantToken[j]: the token of the last lease call that returned j
\* tokens: lock tokens handed out so far
\* results[j]: the outcomes of the remote executions of job j, in order
\* appends[j]: addLog calls on job j that have committed
\* logged[j]: every sequence number a job_log row of job j ever had
\* batch[w]: the rows of worker w's last lease result, in the order returned
\* stopped[w]: stop() has been called on worker w
\* notice[w]: a new_job notification has reached worker w and w has begun no
\*   lease query since
\* published: pg_notify('new_job') calls made so far
\* retried[j]: leases[j] at the last Job.retry that found job j FAILED
\* thrown[w]: loop iterations of worker w that ended in the catch block
\* started[j], completed[j], failed[j]: the jobStarted, jobCompleted and
\*   jobFailed events the workers have emitted for job j
Track(old, new) ==
  [hist EXCEPT
     !.leases = [j \in JobIds |->
        IF old[j].status = "PENDING" /\ new[j].status = "RUNNING" THEN @[j] + 1 ELSE @[j]],
     !.grants = [j \in JobIds |->
        IF old[j].status # "PENDING" /\ new[j].status = "PENDING" THEN 0 ELSE @[j]]]

\* ----------------------------------------------------------------- Init
Init ==
  /\ queue = [q \in Queues |->
       [status |-> "ACTIVE", paused_at |-> NULLS, default_job_options |-> BuiltInOptions]]
  /\ handle = [h \in Handles |-> [queueId |-> 0, status |-> "ACTIVE", error |-> "none"]]
  /\ job = [j \in JobIds |-> NoRow]
  /\ rowLock = [j \in JobIds |-> FALSE]
  /\ jobLog = [j \in JobIds |-> {}]
  /\ logCall = [c \in LogCallers |-> [pc |-> "idle", job |-> 0, keepLogs |-> 0, sequence |-> 0, token |-> NULL]]
  /\ worker = [w \in Workers |->
       [pc |-> "new", running |-> FALSE, activeJobs |-> {}, wakeUpResolve |-> FALSE,
        sel |-> {}, token |-> NULL]]
  /\ tasks = {}
  /\ hist = [leases |-> [j \in JobIds |-> 0],
             grants |-> [j \in JobIds |-> 0], grantToken |-> [j \in JobIds |-> NULL],
             tokens |-> 0, results |-> [j \in JobIds |-> <<>>],
             appends |-> [j \in JobIds |-> 0], logged |-> [j \in JobIds |-> {}],
             batch |-> [w \in Workers |-> <<>>], stopped |-> [w \in Workers |-> FALSE],
             notice |-> [w \in Workers |-> FALSE], published |-> 0,
             retried |-> [j \in JobIds |-> NULL],
             started |-> [j \in JobIds |-> 0], completed |-> [j \in JobIds |-> 0],
             failed |-> [j \in JobIds |-> 0], thrown |-> [w \in Workers |-> 0],
             adding |-> [h \in Handles |-> 0]]

\* ------------------------------------------------------------ Queue.add
\* the queue table after Queue.waitUntilReady: the first call on a handle
\* creates the row of its queue when there is none
EnsureQueue(h) ==
  IF handle[h].queueId = 0 /\ queue[HandleQueue(h)] = NoQueue
    THEN [queue EXCEPT ![HandleQueue(h)] =
            [status |-> "ACTIVE", paused_at |-> NULLS,
             default_job_options |-> DefaultJobOptions(h)]]
    ELSE queue

\* Queue.waitUntilReady: the first call on a handle reads the queue row and
\* caches its id and status; later calls return at once
WaitUntilReady(h) ==
  IF handle[h].queueId # 0 THEN handle[h]
  ELSE [queueId |-> HandleQueue(h), status |-> EnsureQueue(h)[HandleQueue(h)].status,
        error |-> handle[h].error]

NextJobId == Cardinality({j \in JobIds : Exists(j)}) + 1

\* the Job object built by the Job constructor from the merged options
NewJobObj(id, priority, maxAttempts, keepLogs) ==
  [id |-> id, status |-> "PENDING", priority |-> priority, exitCode |-> UNDEF,
   maxAttempts |-> maxAttempts, attemptsMade |-> 0, processedOn |-> UNDEFS,
   finishedOn |-> UNDEFS, failedReason |-> UNDEFS, stackTrace |-> UNDEFS,
   lockToken |-> UNDEF, keepLogs |-> keepLogs, customId |-> UNDEF]

\* Job.save on an object without id: INSERT, undefined fields take the column default
InsertRow(obj, q) ==
  [id |-> obj.id, queue_id |-> q, status |-> obj.status,
   priority |-> obj.priority, max_attempts |-> obj.maxAttempts,
   attempts_made |-> obj.attemptsMade, lock_token |-> Put(obj.lockToken, NULL),
   processed_on |-> PutS(obj.processedOn, NULLS), finished_on |-> PutS(obj.finishedOn, NULLS),
   exit_code |-> Put(obj.exitCode, NULL), failed_reason |-> PutS(obj.failedReason, NULLS),
   stack_trace |-> PutS(obj.stackTrace, NULLS), keep_logs |-> obj.keepLogs,
   custom_id |-> Put(obj.customId, NULL)]

\* the custom ids a producer may pass; UNDEF: none, the column stays NULL
CustomIdChoices == {UNDEF, 1, 2}

\* an INSERT that the unique index on custom_id would let through
CollidesNever(customId) == FALSE

\* custom_id String? @unique: the INSERT violates the unique index
Collides(customId) ==
  /\ customId # UNDEF
  /\ \E j \in JobIds : Exists(j) /\ job[j].custom_id = customId

\* const jobOptions = { ...this.settings.defaultJobOptions, ...options }:
\* an option of the call wins over the one of the Queue object's bag
MergeOptions(defaults, options) ==
  [priority |-> IF options.priority # UNDEF THEN options.priority ELSE defaults.priority,
   maxAttempts |-> IF options.maxAttempts # UNDEF THEN options.maxAttempts
                   ELSE defaults.maxAttempts,
   keepLogs |-> IF options.keepLogs # UNDEF THEN options.keepLogs ELSE defaults.keepLogs,
   customId |-> options.customId]

\* the option bags a producer may pass to Queue.add
OptionChoices ==
  [priority : {UNDEF} \cup PriorityChoices, maxAttempts : {UNDEF} \cup MaxAttemptsChoices,
   keepLogs : {UNDEF, 1}, customId : {UNDEF}]

\* Queue.add(name, command, args, options): waitUntilReady, the PAUSED check on
\* the handle's cached status, the merge of the options, then Job.create in a
\* transaction (the Job constructor fills priority ?? 0, maxAttempts ?? 1,
\* keepLogs ?? 50; save; new_job is published); an INSERT that violates the
\* unique index on custom_id makes add throw
AddMerged(h, options) ==
  /\ NextJobId <= MaxJobs
  /\ queue' = EnsureQueue(h)
  /\ IF WaitUntilReady(h).status = "PAUSED"
       THEN /\ handle' = [handle EXCEPT ![h] = [WaitUntilReady(h) EXCEPT !.error = "paused"]]
            /\ UNCHANGED <<job, hist>>
       ELSE IF Collides(options.customId)
         THEN /\ handle' = [handle EXCEPT ![h] = [WaitUntilReady(h) EXCEPT !.error = "collision"]]
              /\ UNCHANGED <<job, hist>>
         ELSE /\ handle' = [handle EXCEPT ![h] = [WaitUntilReady(h) EXCEPT !.error = "none"]]
              /\ LET jobOptions == MergeOptions(DefaultJobOptions(h), options)
                 IN job' = [job EXCEPT ![NextJobId] =
                      InsertRow([NewJobObj(NextJobId,
                                           Put(jobOptions.priority, DefaultPriority),
                                           Put(jobOptions.maxAttempts, DefaultMaxAttempts),
                                           Put(jobOptions.keepLogs, DefaultKeepLogs))
                                   EXCEPT !.customId = jobOptions.customId],
                                handle'[h].queueId)]
              /\ hist' = [Track(job, job') EXCEPT !.published = @ + 1]
  /\ UNCHANGED <<rowLock, jobLog, logCall, worker, tasks>>

\* Queue.add with a priority and maxAttempts of the call
AddWithOptions(h, priority, maxAttempts, customId) ==
  AddMerged(h, [priority |-> priority, maxAttempts |-> maxAttempts, keepLogs |-> UNDEF,
                customId |-> customId])

\* Queue.add up to the end of Job.create, inside the transaction of add that
\* is still open: the INSERT has been made (the new row is held by the
\* transaction and no other session can lock or see it) and notifyNewJob has
\* sent pg_notify('new_job') on the notification client
AddInsert(h, priority, maxAttempts) ==
  /\ NextJobId <= MaxJobs
  /\ hist.adding[h] = 0
  /\ WaitUntilReady(h).status # "PAUSED"
  /\ queue' = EnsureQueue(h)
  /\ handle' = [handle EXCEPT ![h] = [WaitUntilReady(h) EXCEPT !.error = "none"]]
  /\ job' = [job EXCEPT ![NextJobId] =
       InsertRow(NewJobObj(NextJobId, priority, maxAttempts,
                           Put(DefaultJobOptions(h).keepLogs, DefaultKeepLogs)),
                 handle'[h].queueId)]
  /\ rowLock' = [rowLock EXCEPT ![NextJobId] = TRUE]
  /\ hist' = [Track(job, job') EXCEPT !.published = @ + 1, !.adding[h] = NextJobId]
  /\ UNCHANGED <<jobLog, logCall, worker, tasks>>

\* the transaction of that Queue.add commits
AddCommitTx(h) ==
  /\ hist.adding[h] # 0
  /\ rowLock' = [rowLock EXCEPT ![hist.adding[h]] = FALSE]
  /\ hist' = [hist EXCEPT !.adding[h] = 0]
  /\ UNCHANGED <<queue, handle, job, jobLog, logCall, worker, tasks>>

\* Queue.add without a customId
Add(h, priority, maxAttempts) == AddWithOptions(h, priority, maxAttempts, UNDEF)

\* ------------------------------------------------------- Queue stall sweep
\* a sweep query that would lack the queue_id condition
IsStalledAnyQueue(j, q) ==
  /\ Exists(j)
  /\ job[j].status = "RUNNING"
  /\ job[j].processed_on = OLD

IsStalled(j, q) ==
  /\ Exists(j)
  /\ job[j].status = "RUNNING"
  /\ job[j].processed_on = OLD
  /\ job[j].queue_id = q

\* Queue.markStalledJobs: FOR UPDATE SKIP LOCKED, then status = STALLED, lock_token = NULL
MarkStalledJobs(q) ==
  [j \in JobIds |->
     IF IsStalled(j, q) /\ ~rowLock[j]
       THEN [job[j] EXCEPT !.status = "STALLED", !.lock_token = NULL]
       ELSE job[j]]

\* a retryStalledJobs that would not look at the queue
RetryStalledJobsAnyQueue(q) ==
  [j \in JobIds |->
     IF Exists(j) /\ job[j].status = "STALLED"
       THEN [job[j] EXCEPT !.status = "PENDING", !.lock_token = NULL]
       ELSE job[j]]

\* Queue.retryStalledJobs: every STALLED job of the queue back to PENDING
RetryStalledJobs(q) ==
  [j \in JobIds |->
     IF Exists(j) /\ job[j].status = "STALLED" /\ job[j].queue_id = q
       THEN [job[j] EXCEPT !.status = "PENDING", !.lock_token = NULL]
       ELSE job[j]]

\* a client calls queue.markStalledJobs on its Queue object
QueueMarkStalled(h) ==
  /\ handle' = [handle EXCEPT ![h] = WaitUntilReady(h)]
  /\ queue' = EnsureQueue(h)
  /\ job' = MarkStalledJobs(HandleQueue(h))
  /\ hist' = Track(job, job')
  /\ UNCHANGED <<rowLock, jobLog, logCall, worker, tasks>>

\* a client calls queue.retryStalledJobs on its Queue object; the UPDATE waits
\* for the row locks of the STALLED rows
QueueRetryStalled(h) ==
  /\ \A j \in JobIds :
       (job[j].status = "STALLED" /\ job[j].queue_id = HandleQueue(h)) => ~rowLock[j]
  /\ handle' = [handle EXCEPT ![h] = WaitUntilReady(h)]
  /\ queue' = EnsureQueue(h)
  /\ job' = RetryStalledJobs(HandleQueue(h))
  /\ hist' = Track(job, job')
  /\ UNCHANGED <<rowLock, jobLog, logCall, worker, tasks>>

\* ------------------------------------------------------------ Worker loop
\* Worker.start up to LISTEN new_job
WorkerConnect(w) ==
  /\ worker[w].pc = "new"
  /\ worker' = [worker EXCEPT ![w].pc = "listening"]
  /\ UNCHANGED <<queue, handle, job, rowLock, jobLog, logCall, tasks, hist>>

\* a start that would log the connection error and go on to LISTEN
WorkerConnectFailsAndListens(w) ==
  /\ worker[w].pc = "new"
  /\ worker' = [worker EXCEPT ![w].pc = "listening"]
  /\ UNCHANGED <<queue, handle, job, rowLock, jobLog, logCall, tasks, hist>>

\* Worker.start: remoteExecutor.connect throws or testConnection returns
\* false; the catch block logs and rethrows, start rejects
WorkerConnectFails(w) ==
  /\ worker[w].pc = "new"
  /\ worker' = [worker EXCEPT ![w].pc = "rejected"]
  /\ UNCHANGED <<queue, handle, job, rowLock, jobLog, logCall, tasks, hist>>

\* Worker.start: await this.queue.retryStalledJobs(); this.running = true
WorkerRetryStalled(w) ==
  /\ worker[w].pc = "listening"
  /\ \A j \in JobIds :
       (job[j].status = "STALLED" /\ job[j].queue_id = WorkerQueue(w)) => ~rowLock[j]
  /\ job' = RetryStalledJobs(WorkerQueue(w))
  /\ hist' = Track(job, job')
  /\ worker' = [worker EXCEPT ![w].pc = "loop", ![w].running = TRUE]
  /\ UNCHANGED <<queue, handle, rowLock, jobLog, logCall, tasks>>

\* a loop iteration begins, the first one or after the poll timer has fired
\* (finally: wakeUpResolve = null): while (this.running), checkStalledJobs
Sweep(w) ==
  /\ worker[w].pc \in {"loop", "sleep"}
  /\ worker[w].running
  /\ job' = MarkStalledJobs(WorkerQueue(w))
  /\ hist' = Track(job, job')
  /\ worker' = [worker EXCEPT ![w].pc = "fill", ![w].wakeUpResolve = FALSE]
  /\ UNCHANGED <<queue, handle, rowLock, jobLog, logCall, tasks>>

\* a loop whose catch block would end it
SweepThrowsAndStops(w) ==
  /\ worker[w].pc \in {"loop", "sleep"}
  /\ worker[w].running
  /\ worker' = [worker EXCEPT ![w].pc = "loop", ![w].wakeUpResolve = FALSE,
                               ![w].running = FALSE]
  /\ hist' = [hist EXCEPT !.thrown[w] = @ + 1]
  /\ UNCHANGED <<queue, handle, job, rowLock, jobLog, logCall, tasks>>

\* a loop iteration begins and checkStalledJobs throws: the transaction of
\* markStalledJobs rolls back, catch logs 'Worker loop error', finally clears
\* wakeUpResolve, and the while condition is tested again
SweepThrows(w) ==
  /\ worker[w].pc \in {"loop", "sleep"}
  /\ worker[w].running
  /\ worker' = [worker EXCEPT ![w].pc = "loop", ![w].wakeUpResolve = FALSE]
  /\ hist' = [hist EXCEPT !.thrown[w] = @ + 1]
  /\ UNCHANGED <<queue, handle, job, rowLock, jobLog, logCall, tasks>>

\* the lease query of fillConcurrency throws, before or after its CTE has
\* locked rows: the statement rolls back and the row locks go; catch, finally
\* and the next test of the while condition follow without a sleep
LeaseThrows(w) ==
  /\ \/ worker[w].pc = "leasing"
     \/ worker[w].pc = "fill" /\ Concurrency(w) - Cardinality(worker[w].activeJobs) > 0
  /\ rowLock' = [j \in JobIds |-> rowLock[j] /\ j \notin worker[w].sel]
  /\ worker' = [worker EXCEPT ![w].pc = "loop", ![w].wakeUpResolve = FALSE,
                               ![w].sel = {}, ![w].token = NULL]
  /\ hist' = [hist EXCEPT !.thrown[w] = @ + 1]
  /\ UNCHANGED <<queue, handle, job, jobLog, logCall, tasks>>

\* Worker.stop, called once start has begun: this.running = false
Stop(w) ==
  /\ worker[w].pc # "new"
  /\ ~hist.stopped[w]
  /\ worker' = [worker EXCEPT ![w].running = FALSE]
  /\ hist' = [hist EXCEPT !.stopped[w] = TRUE]
  /\ UNCHANGED <<queue, handle, job, rowLock, jobLog, logCall, tasks>>

\* while (this.running) is false when the iteration ends: start returns
WorkerExit(w) ==
  /\ worker[w].pc \in {"loop", "sleep"}
  /\ ~worker[w].running
  /\ worker' = [worker EXCEPT ![w].pc = "done", ![w].wakeUpResolve = FALSE]
  /\ UNCHANGED <<queue, handle, job, rowLock, jobLog, logCall, tasks, hist>>

\* the 'notification' handler of the worker's client: the new_job channel is
\* shared by every producer of the database, so a notification may arrive at
\* any time after LISTEN; the handler resolves the sleep when wakeUpResolve is
\* set and does nothing otherwise
Notification(w) ==
  /\ worker[w].pc \notin {"new", "rejected", "done"}
  /\ worker' = [worker EXCEPT ![w].pc = IF worker[w].wakeUpResolve THEN "loop" ELSE @,
                               ![w].wakeUpResolve = FALSE]
  /\ hist' = [hist EXCEPT !.notice[w] = TRUE]
  /\ UNCHANGED <<queue, handle, job, rowLock, jobLog, logCall, tasks>>

\* ORDER BY priority ASC, created_at ASC, id ASC; rows are inserted one at a
\* time, so created_at never decreases with id
Before(a, b) ==
  \/ job[a].priority < job[b].priority
  \/ job[a].priority = job[b].priority /\ a < b

\* a lease query that would lack the queue_id condition
LeasableAnyQueue(j, q) ==
  /\ Exists(j)
  /\ job[j].status = "PENDING"
  /\ job[j].lock_token = NULL
  /\ ~rowLock[j]

\* the lease query without SKIP LOCKED semantics: a row locked by another
\* lease query is selected all the same
LeasableLockedToo(j, q) ==
  /\ Exists(j)
  /\ job[j].status = "PENDING"
  /\ job[j].queue_id = q
  /\ job[j].lock_token = NULL

\* the WHERE clause of the lease query with FOR UPDATE SKIP LOCKED
Leasable(j, q) ==
  /\ Exists(j)
  /\ job[j].status = "PENDING"
  /\ job[j].queue_id = q
  /\ job[j].lock_token = NULL
  /\ ~rowLock[j]

\* ... LIMIT n
NextJobs(q, n) ==
  LET S == {j \in JobIds : Leasable(j, q)}
  IN {j \in S : Cardinality({k \in S : Before(k, j)}) < n}

\* fillConcurrency: no free slot or an empty lease result, then the sleep begins;
\* otherwise the lease query has locked the rows of its CTE
FillConcurrency(w) ==
  /\ worker[w].pc = "fill"
  /\ LET slotsToFill == Concurrency(w) - Cardinality(worker[w].activeJobs)
         sel == IF slotsToFill <= 0 THEN {} ELSE NextJobs(WorkerQueue(w), slotsToFill)
     IN IF sel = {}
          THEN /\ worker' = [worker EXCEPT ![w].pc = "sleep", ![w].wakeUpResolve = TRUE]
               /\ hist' = [hist EXCEPT !.notice[w] = @ /\ slotsToFill <= 0]
               /\ UNCHANGED rowLock
          ELSE /\ hist.tokens < MaxLeases
               /\ worker' = [worker EXCEPT ![w].pc = "leasing", ![w].sel = sel,
                                            ![w].token = hist.tokens + 1]
               /\ rowLock' = [j \in JobIds |-> rowLock[j] \/ j \in sel]
               /\ hist' = [hist EXCEPT !.tokens = @ + 1, !.notice[w] = FALSE]
  /\ UNCHANGED <<queue, handle, job, jobLog, logCall, tasks>>

\* a lease UPDATE that would set the status without lock_token
LeaseRowNoToken(row, token) ==
  [row EXCEPT !.status = "RUNNING", !.processed_on = RECENT, !.attempts_made = @ + 1]

\* the UPDATE ... RETURNING * of the lease query
LeaseRow(row, token) ==
  [row EXCEPT !.status = "RUNNING", !.lock_token = token, !.processed_on = RECENT,
              !.attempts_made = @ + 1]

\* UPDATE ... WHERE id IN (SELECT id FROM next_job) RETURNING * has no ORDER BY:
\* the rows come back in any order
ReturningOrders(sel) ==
  {o \in [1..Cardinality(sel) -> sel] : \A j \in sel : \E i \in DOMAIN o : o[i] = j}

\* the lease query commits; fillConcurrency dispatches processJob for every
\* returned row, in the order returned (each processJob emits jobStarted and
\* calls the executor), and the loop goes to sleep
LeaseUpdate(w) ==
  /\ worker[w].pc = "leasing"
  /\ LET sel == worker[w].sel
         token == worker[w].token
     IN /\ job' = [j \in JobIds |-> IF j \in sel THEN LeaseRow(job[j], token) ELSE job[j]]
        /\ rowLock' = [j \in JobIds |-> rowLock[j] /\ j \notin sel]
        /\ tasks' = tasks \cup
             {[worker |-> w, job |-> j, token |-> token, obj |-> ObjOfRow(job'[j]),
               pc |-> "exec", res |-> UNDEF] : j \in sel}
        /\ worker' = [worker EXCEPT ![w].pc = "sleep", ![w].wakeUpResolve = TRUE,
                                     ![w].sel = {}, ![w].token = NULL,
                                     ![w].activeJobs = @ \cup sel]
        /\ \E order \in ReturningOrders(sel) :
             hist' = [Track(job, job') EXCEPT
               !.grants = [j \in JobIds |-> IF j \in sel THEN @[j] + 1 ELSE @[j]],
               !.grantToken = [j \in JobIds |-> IF j \in sel THEN token ELSE @[j]],
               !.batch[w] = order,
               !.started = [j \in JobIds |-> IF j \in sel THEN @[j] + 1 ELSE @[j]]]
  /\ UNCHANGED <<queue, handle, jobLog, logCall>>

\* a retry test that would allow one attempt more
ShouldRetryInclusive(obj) == obj.attemptsMade <= obj.maxAttempts

\* -------------------------------------------------- Job state transitions
\* Job.shouldRetry
ShouldRetry(obj) == obj.attemptsMade < obj.maxAttempts

\* a moveToCompleted that would keep the lock token
MoveToCompletedKeepingToken(obj, exitCode) ==
  [obj EXCEPT !.status = "COMPLETED", !.exitCode = exitCode, !.finishedOn = RECENT]

\* the object after Job.moveToCompleted(exitCode, ...)
MoveToCompleted(obj, exitCode) ==
  [obj EXCEPT !.status = "COMPLETED", !.exitCode = exitCode, !.finishedOn = RECENT,
              !.lockToken = NULL]

\* the object after Job.moveToFailed(error, exitCode, ...); exitCode is UNDEF
\* when processJob passes none
MoveToFailed(obj, exitCode) ==
  LET o == [obj EXCEPT !.failedReason = "error", !.stackTrace = "stack",
                       !.exitCode = exitCode, !.lockToken = NULL,
                       !.processedOn = RECENT, !.finishedOn = RECENT]
  IN IF ShouldRetry(o)
       THEN [o EXCEPT !.status = "PENDING", !.finishedOn = UNDEFS, !.lockToken = NULL,
                      !.processedOn = UNDEFS, !.failedReason = UNDEFS,
                      !.stackTrace = UNDEFS]
       ELSE [o EXCEPT !.status = "FAILED"]

\* the object after Job.moveToRunning(lockToken)
MoveToRunning(obj, lockToken) ==
  [obj EXCEPT !.status = "RUNNING", !.lockToken = lockToken, !.processedOn = RECENT,
              !.attemptsMade = @ + 1]

\* the object after Job.moveToCancelled(reason)
MoveToCancelled(obj) ==
  [obj EXCEPT !.status = "CANCELLED", !.failedReason = "cancelled", !.finishedOn = RECENT,
              !.lockToken = NULL]

\* Worker.processJob: the outcome of executeJob decides the transition
Settle(obj, res) ==
  IF res = 0 THEN MoveToCompleted(obj, res) ELSE MoveToFailed(obj, res)

\* ------------------------------------------------------- dispatched tasks
\* processJob: the remote execution ends with exit code res (UNDEF: it threw or timed out)
\* and moveToCompleted / moveToFailed takes the row lock (SELECT ... FOR UPDATE)
TaskFinish(t, res) ==
  /\ t \in tasks
  /\ t.pc = "exec"
  /\ ~rowLock[t.job]
  /\ rowLock' = [rowLock EXCEPT ![t.job] = TRUE]
  /\ tasks' = (tasks \ {t}) \cup {[t EXCEPT !.pc = "locked", !.res = res]}
  /\ hist' = [hist EXCEPT !.results[t.job] = Append(@, res)]
  /\ UNCHANGED <<queue, handle, job, jobLog, logCall, worker>>

\* a settle after which the job id would stay in activeJobs
TaskCommitKeepingSlot(t) ==
  /\ t \in tasks
  /\ t.pc = "locked"
  /\ LET o == Settle(t.obj, t.res)
     IN /\ job' = [job EXCEPT ![t.job] = SaveRow(@, o)]
        /\ hist' = [Track(job, job') EXCEPT
                      !.published = IF o.status = "PENDING" THEN @ + 1 ELSE @,
                      !.completed[t.job] = IF t.res = 0 THEN @ + 1 ELSE @,
                      !.failed[t.job] = IF t.res = 0 THEN @ ELSE @ + 1]
  /\ rowLock' = [rowLock EXCEPT ![t.job] = FALSE]
  /\ tasks' = tasks \ {t}
  /\ UNCHANGED <<queue, handle, jobLog, logCall, worker>>

\* the transaction of moveToCompleted / moveToFailed saves the object and commits
\* (the retry branch publishes new_job); processJob emits jobCompleted or
\* jobFailed and returns, and the slot is released
TaskCommit(t) ==
  /\ t \in tasks
  /\ t.pc = "locked"
  /\ LET o == Settle(t.obj, t.res)
     IN /\ job' = [job EXCEPT ![t.job] = SaveRow(@, o)]
        /\ hist' = [Track(job, job') EXCEPT
                      !.published = IF o.status = "PENDING" THEN @ + 1 ELSE @,
                      !.completed[t.job] = IF t.res = 0 THEN @ + 1 ELSE @,
                      !.failed[t.job] = IF t.res = 0 THEN @ ELSE @ + 1]
  /\ rowLock' = [rowLock EXCEPT ![t.job] = FALSE]
  /\ tasks' = tasks \ {t}
  /\ worker' = [worker EXCEPT ![t.worker].activeJobs = @ \ {t.job}]
  /\ UNCHANGED <<queue, handle, jobLog, logCall>>

\* moveToFailed, retry branch, inside its transaction that still holds the row
\* lock: save(tx) has written the row, not yet committed, and notifyNewJob has
\* sent pg_notify('new_job') on the notification client
TaskNotify(t) ==
  /\ t \in tasks
  /\ t.pc = "locked"
  /\ Settle(t.obj, t.res).status = "PENDING"
  /\ tasks' = (tasks \ {t}) \cup {[t EXCEPT !.pc = "notified"]}
  /\ hist' = [hist EXCEPT !.published = @ + 1]
  /\ UNCHANGED <<queue, handle, job, rowLock, jobLog, logCall, worker>>

\* the transaction of that moveToFailed commits; processJob emits jobFailed
\* and returns, and the slot is released
TaskCommitNotified(t) ==
  /\ t \in tasks
  /\ t.pc = "notified"
  /\ job' = [job EXCEPT ![t.job] = SaveRow(@, Settle(t.obj, t.res))]
  /\ hist' = [Track(job, job') EXCEPT !.failed[t.job] = @ + 1]
  /\ rowLock' = [rowLock EXCEPT ![t.job] = FALSE]
  /\ tasks' = tasks \ {t}
  /\ worker' = [worker EXCEPT ![t.worker].activeJobs = @ \ {t.job}]
  /\ UNCHANGED <<queue, handle, jobLog, logCall>>

\* the transaction of moveToCompleted / moveToFailed throws at save (database
\* error, transaction timeout): it rolls back and releases the row lock, the
\* assignments to the Job object stay.  Thrown inside the try block, the error
\* is caught by processJob; thrown by the moveToFailed of the catch block,
\* processJob rejects without an event, console.error logs it and the slot
\* is released
TaskPersistThrows(t) ==
  /\ t \in tasks
  /\ t.pc = "locked"
  /\ rowLock' = [rowLock EXCEPT ![t.job] = FALSE]
  /\ IF t.res # UNDEF
       THEN /\ tasks' = (tasks \ {t}) \cup
                 {[t EXCEPT !.pc = "caught", !.obj = Settle(t.obj, t.res), !.res = UNDEF]}
            /\ UNCHANGED worker
       ELSE /\ tasks' = tasks \ {t}
            /\ worker' = [worker EXCEPT ![t.worker].activeJobs = @ \ {t.job}]
  /\ UNCHANGED <<queue, handle, job, jobLog, logCall, hist>>

\* the catch block of processJob: moveToFailed(error) takes the row lock
TaskCatch(t) ==
  /\ t \in tasks
  /\ t.pc = "caught"
  /\ ~rowLock[t.job]
  /\ rowLock' = [rowLock EXCEPT ![t.job] = TRUE]
  /\ tasks' = (tasks \ {t}) \cup {[t EXCEPT !.pc = "locked"]}
  /\ UNCHANGED <<queue, handle, job, jobLog, logCall, worker, hist>>

\* ------------------------------------------------------------ environment
\* the clock moves on: the processed_on of a RUNNING row falls behind the
\* stalled timeout of the sweeping workers
TimePasses(j) ==
  /\ Exists(j)
  /\ job[j].status = "RUNNING"
  /\ job[j].processed_on = RECENT
  /\ job' = [job EXCEPT ![j].processed_on = OLD]
  /\ UNCHANGED <<queue, handle, rowLock, jobLog, logCall, worker, tasks, hist>>

\* the row after Job.retry(jobId): prisma.job.update without any status check
RetryRow(row) ==
  [row EXCEPT !.status = "PENDING", !.failed_reason = NULLS, !.stack_trace = NULLS,
              !.lock_token = NULL, !.finished_on = NULLS, !.exit_code = NULL]

\* Job.retry(jobId) (the CLI command job retry)
JobRetry(j) ==
  /\ Exists(j)
  /\ ~rowLock[j]
  /\ job' = [job EXCEPT ![j] = RetryRow(@)]
  /\ job' # job
  /\ hist' = [Track(job, job') EXCEPT
                !.retried[j] = IF job[j].status = "FAILED" THEN hist.leases[j] ELSE @]
  /\ UNCHANGED <<queue, handle, rowLock, jobLog, logCall, worker, tasks>>

\* the producer calls moveToCancelled on the Job object Queue.add returned
ClientCancel(j) ==
  /\ Exists(j)
  /\ ~rowLock[j]
  /\ LET row == job[j]
         o == NewJobObj(j, row.priority, row.max_attempts, row.keep_logs)
     IN job' = [job EXCEPT ![j] = SaveRow(@, MoveToCancelled(o))]
  /\ job' # job
  /\ hist' = Track(job, job')
  /\ UNCHANGED <<queue, handle, rowLock, jobLog, logCall, worker, tasks>>

\* a client calls moveToRunning on the Job object Queue.add returned
ClientMoveToRunning(j) ==
  /\ Exists(j)
  /\ ~rowLock[j]
  /\ LET row == job[j]
         o == NewJobObj(j, row.priority, row.max_attempts, row.keep_logs)
     IN job' = [job EXCEPT ![j] = SaveRow(@, MoveToRunning(o, ClientToken))]
  /\ job' # job
  /\ hist' = Track(job, job')
  /\ UNCHANGED <<queue, handle, rowLock, jobLog, logCall, worker, tasks>>

\* --------------------------------------------------- Queue.pause / resume
\* Queue.pause: waitUntilReady, then status = PAUSED and paused_at = now in one
\* transaction; the handle's cached status follows
Pause(h) ==
  /\ queue' = [EnsureQueue(h) EXCEPT ![HandleQueue(h)].status = "PAUSED",
                                      ![HandleQueue(h)].paused_at = RECENT]
  /\ handle' = [handle EXCEPT ![h] = [WaitUntilReady(h) EXCEPT !.status = "PAUSED"]]
  /\ UNCHANGED <<job, rowLock, jobLog, logCall, worker, tasks, hist>>

\* a resume that would leave paused_at as it is
ResumeKeepingPausedAt(h) ==
  /\ queue' = [EnsureQueue(h) EXCEPT ![HandleQueue(h)].status = "ACTIVE"]
  /\ handle' = [handle EXCEPT ![h] = [WaitUntilReady(h) EXCEPT !.status = "ACTIVE"]]
  /\ UNCHANGED <<job, rowLock, jobLog, logCall, worker, tasks, hist>>

\* Queue.resume: status = ACTIVE and paused_at = NULL
Resume(h) ==
  /\ queue' = [EnsureQueue(h) EXCEPT ![HandleQueue(h)].status = "ACTIVE",
                                      ![HandleQueue(h)].paused_at = NULLS]
  /\ handle' = [handle EXCEPT ![h] = [WaitUntilReady(h) EXCEPT !.status = "ACTIVE"]]
  /\ UNCHANGED <<job, rowLock, jobLog, logCall, worker, tasks, hist>>

\* ------------------------------------------------------------- Job.addLog
Max(S) == CHOOSE x \in S : \A y \in S : y <= x

\* a sequence that would be computed from the number of rows
NextSequenceByCount(logs) == Cardinality(logs) + 1

\* SELECT ... ORDER BY sequence DESC LIMIT 1, then sequence + 1 or 1
NextSequence(logs) == IF logs = {} THEN 1 ELSE Max(logs) + 1

\* a cleanOldLogs that would skip one row more than keepLogs
CleanOldLogsSkipOneMore(logs, keepLogs) ==
  IF keepLogs = NULL \/ keepLogs = 0 THEN logs
  ELSE {x \in logs : Cardinality({y \in logs : y > x}) < keepLogs + 1}

\* Job.cleanOldLogs: the rows after the first keepLogs in descending order of
\* sequence are deleted; nothing is deleted when keepLogs is 0 or null
CleanOldLogs(logs, keepLogs) ==
  IF keepLogs = NULL \/ keepLogs = 0 THEN logs
  ELSE {x \in logs : Cardinality({y \in logs : y > x}) < keepLogs}

\* addLog opens its transaction and locks the job row; the caller is a stdout or
\* stderr callback holding the Job object of the row
AddLogLock(c, j) ==
  /\ logCall[c].pc = "idle"
  /\ Exists(j)
  /\ ~rowLock[j]
  /\ hist.appends[j] < MaxAppends
  /\ rowLock' = [rowLock EXCEPT ![j] = TRUE]
  /\ logCall' = [logCall EXCEPT ![c] =
       [pc |-> "locked", job |-> j, keepLogs |-> ObjOfRow(job[j]).keepLogs, sequence |-> 0,
        token |-> NULL]]
  /\ UNCHANGED <<queue, handle, job, jobLog, worker, tasks, hist>>

\* RemoteExecutor.executeJob: an onStdout / onStderr callback of the running
\* command calls job.addLog on the task's Job object and does not await it
TaskAddLogCall(c, t) ==
  /\ logCall[c].pc = "idle"
  /\ t \in tasks
  /\ t.pc = "exec"
  /\ hist.appends[t.job] < MaxAppends
  /\ logCall' = [logCall EXCEPT ![c] =
       [pc |-> "waiting", job |-> t.job, keepLogs |-> t.obj.keepLogs, sequence |-> 0,
        token |-> t.token]]
  /\ UNCHANGED <<queue, handle, job, rowLock, jobLog, worker, tasks, hist>>

\* the transaction of that addLog call gets the job's row lock
AddLogAcquire(c) ==
  /\ logCall[c].pc = "waiting"
  /\ ~rowLock[logCall[c].job]
  /\ rowLock' = [rowLock EXCEPT ![logCall[c].job] = TRUE]
  /\ logCall' = [logCall EXCEPT ![c].pc = "locked"]
  /\ UNCHANGED <<queue, handle, job, jobLog, worker, tasks, hist>>

\* addLog reads the last log row and computes the next sequence
AddLogRead(c) ==
  /\ logCall[c].pc = "locked"
  /\ logCall' = [logCall EXCEPT ![c].pc = "read",
                                ![c].sequence = NextSequence(jobLog[logCall[c].job])]
  /\ UNCHANGED <<queue, handle, job, rowLock, jobLog, worker, tasks, hist>>

\* addLog inserts the row, cleanOldLogs trims, the transaction commits
AddLogCommit(c) ==
  /\ logCall[c].pc = "read"
  /\ LET j == logCall[c].job
         seq == logCall[c].sequence
     IN /\ seq \notin jobLog[j]
        /\ jobLog' = [jobLog EXCEPT ![j] = CleanOldLogs(@ \cup {seq}, logCall[c].keepLogs)]
        /\ rowLock' = [rowLock EXCEPT ![j] = FALSE]
        /\ hist' = [hist EXCEPT !.appends[j] = @ + 1, !.logged[j] = @ \cup {seq}]
  /\ logCall' = [logCall EXCEPT ![c] = [pc |-> "idle", job |-> 0, keepLogs |-> 0, sequence |-> 0, token |-> NULL]]
  /\ UNCHANGED <<queue, handle, job, worker, tasks>>

\* ------------------------------------------------------------------ Spec
Next ==
  \/ \E m \in MaxAttemptsChoices : NextJobId <= MaxRaceJobs /\ Add(1, DefaultPriority, m)
  \/ \E w \in Workers : WorkerConnect(w)
  \/ \E w \in Workers : WorkerRetryStalled(w)
  \/ \E w \in Workers : Sweep(w)
  \/ \E w \in Workers : FillConcurrency(w)
  \/ \E w \in Workers : LeaseUpdate(w)
  \/ \E t \in tasks, r \in {0, 1, UNDEF} : TaskFinish(t, r)
  \/ \E t \in tasks : TaskCommit(t)
  \/ \E j \in JobIds : TimePasses(j)
  \/ \E j \in JobIds : JobRetry(j)
  \/ \E j \in JobIds : ClientCancel(j)

Spec == Init /\ [][Next]_vars

\* the workers alone: no Job.retry and no moveToCancelled by a client
NextWorkers ==
  \/ \E m \in MaxAttemptsChoices : NextJobId <= MaxRaceJobs /\ Add(1, DefaultPriority, m)
  \/ \E w \in Workers : WorkerConnect(w)
  \/ \E w \in Workers : WorkerRetryStalled(w)
  \/ \E w \in Workers : Sweep(w)
  \/ \E w \in Workers : FillConcurrency(w)
  \/ \E w \in Workers : LeaseUpdate(w)
  \/ \E t \in tasks, r \in {0, 1, UNDEF} : TaskFinish(t, r)
  \/ \E t \in tasks : TaskCommit(t)
  \/ \E j \in JobIds : TimePasses(j)

SpecWorkers == Init /\ [][NextWorkers]_vars

\* the workers with executions that all return an exit code, no job so slow
\* that the stall sweep takes it, and no manual retry
NextSettle ==
  \/ \E m \in MaxAttemptsChoices \cup {3} :
       NextJobId <= MaxRaceJobs /\ Add(1, DefaultPriority, m)
  \/ \E w \in Workers : WorkerConnect(w)
  \/ \E w \in Workers : WorkerRetryStalled(w)
  \/ \E w \in Workers : Sweep(w)
  \/ \E w \in Workers : FillConcurrency(w)
  \/ \E w \in Workers : LeaseUpdate(w)
  \/ \E t \in tasks, r \in ExitCodes : TaskFinish(t, r)
  \/ \E t \in tasks : TaskCommit(t)

SpecSettle == Init /\ [][NextSettle]_vars

\* several jobs of different priorities and the workers, every execution
\* returning an exit code
NextBatch ==
  \/ \E p \in PriorityChoices : Add(1, p, DefaultMaxAttempts)
  \/ \E w \in Workers : WorkerConnect(w)
  \/ \E w \in Workers : WorkerRetryStalled(w)
  \/ \E w \in Workers : Sweep(w)
  \/ \E w \in Workers : FillConcurrency(w)
  \/ \E w \in Workers : LeaseUpdate(w)
  \/ \E t \in tasks, r \in {0, 1} : TaskFinish(t, r)
  \/ \E t \in tasks : TaskCommit(t)

SpecBatch == Init /\ [][NextBatch]_vars

\* an operator pauses and resumes the queue through its own handle while the
\* workers run
NextPause ==
  \/ \E m \in MaxAttemptsChoices : NextJobId <= MaxRaceJobs /\ Add(1, DefaultPriority, m)
  \/ Pause(2)
  \/ Resume(2)
  \/ \E w \in Workers : WorkerConnect(w)
  \/ \E w \in Workers : WorkerRetryStalled(w)
  \/ \E w \in Workers : Sweep(w)
  \/ \E w \in Workers : FillConcurrency(w)
  \/ \E w \in Workers : LeaseUpdate(w)
  \/ \E t \in tasks, r \in {0, 1} : TaskFinish(t, r)
  \/ \E t \in tasks : TaskCommit(t)

SpecPause == Init /\ [][NextPause]_vars

\* clients driving the stall sweep by hand on two queues, as the integration
\* test does, while an addLog call may hold a job's row lock
NextSweep ==
  \/ \E h \in {1, 3} : Add(h, DefaultPriority, DefaultMaxAttempts)
  \/ \E j \in JobIds : hist.leases[j] < MaxLeases /\ ClientMoveToRunning(j)
  \/ \E j \in JobIds : TimePasses(j)
  \/ \E h \in {1, 3} : QueueMarkStalled(h)
  \/ \E h \in {1, 3} : QueueRetryStalled(h)
  \/ \E j \in JobIds : hist.appends[j] < MaxSweepLogs /\ AddLogLock(1, j)
  \/ AddLogRead(1)
  \/ AddLogCommit(1)

SpecSweep == Init /\ [][NextSweep]_vars

\* the attempts the jobs added so far may take
RECURSIVE SumMaxAttempts(_)
SumMaxAttempts(n) == IF n = 0 THEN 0 ELSE job[n].max_attempts + SumMaxAttempts(n - 1)

\* one running worker of concurrency 1 (worker 2) and more jobs than slots; the
\* loop, the poll timer and every execution and settle make progress
NextProgress ==
  \/ \E m \in MaxAttemptsChoices :
       SumMaxAttempts(MaxJobs) + m <= MaxLeases /\ Add(1, DefaultPriority, m)
  \/ WorkerConnect(2)
  \/ WorkerRetryStalled(2)
  \/ Sweep(2)
  \/ FillConcurrency(2)
  \/ LeaseUpdate(2)
  \/ \E t \in tasks, r \in {0, 1, UNDEF} : TaskFinish(t, r)
  \/ \E t \in tasks : TaskCommit(t)
  \/ \E j \in JobIds : TimePasses(j)

FairProgress ==
  /\ WF_vars(WorkerConnect(2))
  /\ WF_vars(WorkerRetryStalled(2))
  /\ WF_vars(Sweep(2))
  /\ WF_vars(FillConcurrency(2))
  /\ WF_vars(LeaseUpdate(2))
  /\ WF_vars(\E t \in tasks, r \in {0, 1, UNDEF} : TaskFinish(t, r))
  /\ WF_vars(\E t \in tasks : TaskCommit(t))

SpecProgress == Init /\ [][NextProgress]_vars /\ FairProgress

\* the workers, each of which may be stopped at any point after its start began
NextStop ==
  \/ \E m \in MaxAttemptsChoices : NextJobId <= MaxRaceJobs /\ Add(1, DefaultPriority, m)
  \/ \E w \in Workers : WorkerConnect(w)
  \/ \E w \in Workers : WorkerRetryStalled(w)
  \/ \E w \in Workers : Sweep(w)
  \/ \E w \in Workers : FillConcurrency(w)
  \/ \E w \in Workers : LeaseUpdate(w)
  \/ \E w \in Workers : Stop(w)
  \/ \E w \in Workers : WorkerExit(w)
  \/ \E t \in tasks, r \in {0, 1} : TaskFinish(t, r)
  \/ \E t \in tasks : TaskCommit(t)

SpecStop == Init /\ [][NextStop]_vars

\* producers and operators on the Queue handles: add, pause, resume
NextQueue ==
  \/ \E h \in Handles, p \in PriorityChoices, m \in MaxAttemptsChoices : Add(h, p, m)
  \/ \E h \in Handles : Pause(h)
  \/ \E h \in Handles : Resume(h)

SpecQueue == Init /\ [][NextQueue]_vars

\* concurrent addLog calls on jobs that exist, each with its keep_logs
InitLog ==
  /\ \E K \in [JobIds -> 1..MaxKeepLogs] :
       job = [j \in JobIds |-> InsertRow(NewJobObj(j, DefaultPriority, DefaultMaxAttempts, K[j]), 1)]
  /\ queue = [q \in Queues |->
       [status |-> "ACTIVE", paused_at |-> NULLS, default_job_options |-> BuiltInOptions]]
  /\ handle = [h \in Handles |-> [queueId |-> 0, status |-> "ACTIVE", error |-> "none"]]
  /\ rowLock = [j \in JobIds |-> FALSE]
  /\ jobLog = [j \in JobIds |-> {}]
  /\ logCall = [c \in LogCallers |-> [pc |-> "idle", job |-> 0, keepLogs |-> 0, sequence |-> 0, token |-> NULL]]
  /\ worker = [w \in Workers |->
       [pc |-> "new", running |-> FALSE, activeJobs |-> {}, wakeUpResolve |-> FALSE,
        sel |-> {}, token |-> NULL]]
  /\ tasks = {}
  /\ hist = [leases |-> [j \in JobIds |-> 0],
             grants |-> [j \in JobIds |-> 0], grantToken |-> [j \in JobIds |-> NULL],
             tokens |-> 0, results |-> [j \in JobIds |-> <<>>],
             appends |-> [j \in JobIds |-> 0], logged |-> [j \in JobIds |-> {}],
             batch |-> [w \in Workers |-> <<>>], stopped |-> [w \in Workers |-> FALSE],
             notice |-> [w \in Workers |-> FALSE], published |-> 0,
             retried |-> [j \in JobIds |-> NULL],
             started |-> [j \in JobIds |-> 0], completed |-> [j \in JobIds |-> 0],
             failed |-> [j \in JobIds |-> 0], thrown |-> [w \in Workers |-> 0],
             adding |-> [h \in Handles |-> 0]]

NextLog ==
  \/ \E c \in LogCallers, j \in JobIds : AddLogLock(c, j)
  \/ \E c \in LogCallers : AddLogRead(c)
  \/ \E c \in LogCallers : AddLogCommit(c)

SpecLog == InitLog /\ [][NextLog]_vars

\* the workers and producers, with new_job notifications reaching the workers
\* at any point of their loops
NextNotify ==
  \/ Add(1, DefaultPriority, DefaultMaxAttempts)
  \/ \E w \in Workers : WorkerConnect(w)
  \/ \E w \in Workers : WorkerRetryStalled(w)
  \/ \E w \in Workers : Sweep(w)
  \/ \E w \in Workers : FillConcurrency(w)
  \/ \E w \in Workers : LeaseUpdate(w)
  \/ \E w \in Workers : Notification(w)
  \/ \E t \in tasks : TaskFinish(t, 0)
  \/ \E t \in tasks : TaskCommit(t)

SpecNotify == Init /\ [][NextNotify]_vars

\* producers passing custom ids on a database in which the row of queue 2 has
\* not been created yet; an operator pauses and resumes, a producer cancels
InitCustom ==
  /\ queue = [q \in Queues |->
       IF q = 2 THEN NoQueue
       ELSE [status |-> "ACTIVE", paused_at |-> NULLS,
             default_job_options |-> BuiltInOptions]]
  /\ handle = [h \in Handles |-> [queueId |-> 0, status |-> "ACTIVE", error |-> "none"]]
  /\ job = [j \in JobIds |-> NoRow]
  /\ rowLock = [j \in JobIds |-> FALSE]
  /\ jobLog = [j \in JobIds |-> {}]
  /\ logCall = [c \in LogCallers |-> [pc |-> "idle", job |-> 0, keepLogs |-> 0, sequence |-> 0, token |-> NULL]]
  /\ worker = [w \in Workers |->
       [pc |-> "new", running |-> FALSE, activeJobs |-> {}, wakeUpResolve |-> FALSE,
        sel |-> {}, token |-> NULL]]
  /\ tasks = {}
  /\ hist = [leases |-> [j \in JobIds |-> 0],
             grants |-> [j \in JobIds |-> 0], grantToken |-> [j \in JobIds |-> NULL],
             tokens |-> 0, results |-> [j \in JobIds |-> <<>>],
             appends |-> [j \in JobIds |-> 0], logged |-> [j \in JobIds |-> {}],
             batch |-> [w \in Workers |-> <<>>], stopped |-> [w \in Workers |-> FALSE],
             notice |-> [w \in Workers |-> FALSE], published |-> 0,
             retried |-> [j \in JobIds |-> NULL],
             started |-> [j \in JobIds |-> 0], completed |-> [j \in JobIds |-> 0],
             failed |-> [j \in JobIds |-> 0], thrown |-> [w \in Workers |-> 0],
             adding |-> [h \in Handles |-> 0]]

NextCustom ==
  \/ \E h \in Handles, c \in CustomIdChoices :
       AddWithOptions(h, DefaultPriority, DefaultMaxAttempts, c)
  \/ \E h \in Handles : Pause(h)
  \/ \E h \in Handles : Resume(h)
  \/ \E j \in JobIds : ClientCancel(j)

SpecCustom == InitCustom /\ [][NextCustom]_vars

\* the workers and an operator running the CLI command job retry; a retry is
\* made only while a lock token is left for the lease that is to follow; the
\* loops, the poll timers and every execution and settle make progress
NextRetry ==
  \/ \E m \in MaxAttemptsChoices : NextJobId <= MaxRaceJobs /\ Add(1, DefaultPriority, m)
  \/ \E w \in Workers : WorkerConnect(w)
  \/ \E w \in Workers : WorkerRetryStalled(w)
  \/ \E w \in Workers : Sweep(w)
  \/ \E w \in Workers : FillConcurrency(w)
  \/ \E w \in Workers : LeaseUpdate(w)
  \/ \E t \in tasks, r \in {0, 1} : TaskFinish(t, r)
  \/ \E t \in tasks : TaskCommit(t)
  \/ \E j \in JobIds : hist.tokens < MaxLeases /\ JobRetry(j)

FairRetry ==
  /\ \A w \in Workers :
       /\ WF_vars(WorkerConnect(w))
       /\ WF_vars(WorkerRetryStalled(w))
       /\ WF_vars(Sweep(w))
       /\ WF_vars(FillConcurrency(w))
       /\ WF_vars(LeaseUpdate(w))
  /\ WF_vars(\E t \in tasks, r \in {0, 1} : TaskFinish(t, r))
  /\ WF_vars(\E t \in tasks : TaskCommit(t))

SpecRetry == Init /\ [][NextRetry]_vars /\ FairRetry

\* a producer that calls moveToRunning on the Job object Queue.add returned
\* while the workers run
NextClient ==
  \/ \E m \in MaxAttemptsChoices : NextJobId <= MaxRaceJobs /\ Add(1, DefaultPriority, m)
  \/ \E w \in Workers : WorkerConnect(w)
  \/ \E w \in Workers : WorkerRetryStalled(w)
  \/ \E w \in Workers : Sweep(w)
  \/ \E w \in Workers : FillConcurrency(w)
  \/ \E w \in Workers : LeaseUpdate(w)
  \/ \E t \in tasks, r \in {0, 1} : TaskFinish(t, r)
  \/ \E t \in tasks : TaskCommit(t)
  \/ \E j \in JobIds : ClientMoveToRunning(j)

SpecClient == Init /\ [][NextClient]_vars

\* jobs of different priorities added to two queues, and the workers of queue 1
NextLease ==
  \/ \E h \in {1, 3}, p \in PriorityChoices : Add(h, p, DefaultMaxAttempts)
  \/ \E w \in Workers : WorkerConnect(w)
  \/ \E w \in Workers : WorkerRetryStalled(w)
  \/ \E w \in Workers : Sweep(w)
  \/ \E w \in Workers : FillConcurrency(w)
  \/ \E w \in Workers : LeaseUpdate(w)
  \/ \E t \in tasks, r \in {0, 1} : TaskFinish(t, r)
  \/ \E t \in tasks : TaskCommit(t)

SpecLease == Init /\ [][NextLease]_vars

\* the workers with a database that may fail while an outcome is persisted
NextEvents ==
  \/ \E m \in MaxAttemptsChoices : NextJobId <= MaxRaceJobs /\ Add(1, DefaultPriority, m)
  \/ \E w \in Workers : WorkerConnect(w)
  \/ \E w \in Workers : WorkerRetryStalled(w)
  \/ \E w \in Workers : Sweep(w)
  \/ \E w \in Workers : FillConcurrency(w)
  \/ \E w \in Workers : LeaseUpdate(w)
  \/ \E t \in tasks, r \in {0, 1, UNDEF} : TaskFinish(t, r)
  \/ \E t \in tasks : TaskCommit(t)
  \/ \E t \in tasks : TaskPersistThrows(t)
  \/ \E t \in tasks : TaskCatch(t)

SpecEvents == Init /\ [][NextEvents]_vars

\* workers whose SSH connection may fail at start
NextConnect ==
  \/ \E m \in MaxAttemptsChoices : NextJobId <= MaxRaceJobs /\ Add(1, DefaultPriority, m)
  \/ \E w \in Workers : WorkerConnect(w)
  \/ \E w \in Workers : WorkerConnectFails(w)
  \/ \E w \in Workers : WorkerRetryStalled(w)
  \/ \E w \in Workers : Sweep(w)
  \/ \E w \in Workers : FillConcurrency(w)
  \/ \E w \in Workers : LeaseUpdate(w)
  \/ \E w \in Workers : Notification(w)
  \/ \E t \in tasks, r \in {0, 1} : TaskFinish(t, r)
  \/ \E t \in tasks : TaskCommit(t)
  \/ \E j \in JobIds : TimePasses(j)

SpecConnect == Init /\ [][NextConnect]_vars

\* one worker (worker 2) whose stall sweep and lease query may throw, up to
\* MaxThrows times; the loop, the poll timer and the tasks make progress; jobs
\* are added while lock tokens are left for their attempts and the thrown queries
NextThrows ==
  \/ \E m \in MaxAttemptsChoices :
       SumMaxAttempts(MaxJobs) + m + MaxThrows <= MaxLeases /\ Add(1, DefaultPriority, m)
  \/ WorkerConnect(2)
  \/ WorkerRetryStalled(2)
  \/ Sweep(2)
  \/ hist.thrown[2] < MaxThrows /\ SweepThrows(2)
  \/ FillConcurrency(2)
  \/ hist.thrown[2] < MaxThrows /\ LeaseThrows(2)
  \/ LeaseUpdate(2)
  \/ \E t \in tasks, r \in {0, 1, UNDEF} : TaskFinish(t, r)
  \/ \E t \in tasks : TaskCommit(t)
  \/ \E j \in JobIds : TimePasses(j)

FairThrows ==
  /\ WF_vars(WorkerConnect(2))
  /\ WF_vars(WorkerRetryStalled(2))
  /\ WF_vars(Sweep(2))
  /\ WF_vars(FillConcurrency(2))
  /\ WF_vars(LeaseUpdate(2))
  /\ WF_vars(\E t \in tasks, r \in {0, 1, UNDEF} : TaskFinish(t, r))
  /\ WF_vars(\E t \in tasks : TaskCommit(t))

SpecThrows == Init /\ [][NextThrows]_vars /\ FairThrows

\* a producer and one worker, with the publication of new_job and the commit
\* of the publishing transaction as separate steps
NextPublish ==
  \/ \E m \in MaxAttemptsChoices :
       AddInsert(1, DefaultPriority, m)
  \/ AddCommitTx(1)
  \/ WorkerConnect(2)
  \/ WorkerRetryStalled(2)
  \/ Sweep(2)
  \/ FillConcurrency(2)
  \/ LeaseUpdate(2)
  \/ Notification(2)
  \/ \E t \in tasks, r \in {0, 1} : TaskFinish(t, r)
  \/ \E t \in tasks : Settle(t.obj, t.res).status # "PENDING" /\ TaskCommit(t)
  \/ \E t \in tasks : TaskNotify(t)
  \/ \E t \in tasks : TaskCommitNotified(t)

SpecPublish == Init /\ [][NextPublish]_vars

\* producers that add jobs through every Queue object with every bag of options
NextOptions ==
  \E h \in Handles, o \in OptionChoices : AddMerged(h, o)

SpecOptions == Init /\ [][NextOptions]_vars

\* one worker (worker 2) that is stopped at some point after its start began;
\* the loop, the poll timer, every execution and settle make progress
NextHalt ==
  \/ \E m \in MaxAttemptsChoices :
       SumMaxAttempts(MaxJobs) + m <= MaxLeases /\ Add(1, DefaultPriority, m)
  \/ WorkerConnect(2)
  \/ WorkerRetryStalled(2)
  \/ Sweep(2)
  \/ FillConcurrency(2)
  \/ LeaseUpdate(2)
  \/ Stop(2)
  \/ WorkerExit(2)
  \/ \E t \in tasks, r \in {0, 1, UNDEF} : TaskFinish(t, r)
  \/ \E t \in tasks : TaskCommit(t)
  \/ \E j \in JobIds : TimePasses(j)

FairHalt ==
  /\ FairProgress
  /\ WF_vars(WorkerExit(2))

SpecHalt == Init /\ [][NextHalt]_vars /\ FairHalt

\* one worker whose executions write their output to the job log
NextExecLog ==
  \/ \E m \in MaxAttemptsChoices : NextJobId <= MaxRaceJobs /\ Add(1, DefaultPriority, m)
  \/ WorkerConnect(2)
  \/ WorkerRetryStalled(2)
  \/ Sweep(2)
  \/ FillConcurrency(2)
  \/ LeaseUpdate(2)
  \/ \E t \in tasks, r \in {0, 1, UNDEF} : TaskFinish(t, r)
  \/ \E t \in tasks : TaskCommit(t)
  \/ \E c \in {1, 2}, t \in tasks : hist.appends[t.job] < MaxSweepLogs /\ TaskAddLogCall(c, t)
  \/ \E c \in {1, 2} : AddLogAcquire(c)
  \/ \E c \in {1, 2} : AddLogRead(c)
  \/ \E c \in {1, 2} : AddLogCommit(c)

SpecExecLog == Init /\ [][NextExecLog]_vars

\* ================================================================ claims
TasksOf(j) == {t \in tasks : t.job = j}
Executing(j) == {t \in tasks : t.job = j /\ t.pc = "exec"}

\* C1: at-most-one-leaser.  In every PENDING period of a job at most one
\* lease call returns the job, and while the job is RUNNING its lock_token is
\* the token of the one call that returned it.
C1_AtMostOneLeaser ==
  \A j \in JobIds :
    /\ hist.grants[j] <= 1
    /\ job[j].status = "RUNNING" =>
         /\ hist.grants[j] = 1
         /\ job[j].lock_token = hist.grantToken[j]

\* two workers have run the lease query and one of them holds the job
C1_Witness ==
  \E j \in JobIds :
    /\ job[j].status = "RUNNING"
    /\ hist.grants[j] = 1
    /\ \A w \in Workers : worker[w].pc = "sleep"
    /\ \E t \in tasks : t.job = j /\ t.token = job[j].lock_token

\* C2: at most one dispatched task is executing a job at any time.
C2_AtMostOneExecution ==
  \A j \in JobIds : Cardinality(Executing(j)) <= 1

\* C4: a terminated job's attempts_made is the number of its PENDING -> RUNNING
\* transitions.
C4_AttemptAccounting ==
  \A j \in JobIds :
    Terminal(job[j].status) => job[j].attempts_made = hist.leases[j]

\* C5: attempts_made never exceeds max_attempts + 1.
C5_AttemptsBounded ==
  \A j \in JobIds : Exists(j) => job[j].attempts_made <= job[j].max_attempts + 1

\* C7: a job that is COMPLETED, FAILED or CANCELLED has no lock token and has
\* its finished_on written.
C7_TerminalFields ==
  \A j \in JobIds :
    Terminal(job[j].status) =>
      job[j].lock_token = NULL /\ job[j].finished_on # NULLS

\* a job has reached FAILED through moveToFailed, or COMPLETED
C7_Witness ==
  \E j \in JobIds : job[j].status \in {"FAILED", "COMPLETED"} /\ job[j].attempts_made = 2

\* C8: a RUNNING job has lock_token and processed_on set, and a lease query
\* selects no row whose lock_token is set.
C8_RunningFields ==
  /\ \A j \in JobIds :
       job[j].status = "RUNNING" =>
         job[j].lock_token # NULL /\ job[j].processed_on # NULLS
  /\ \A w \in Workers : \A j \in worker[w].sel : job[j].lock_token = NULL
  /\ \A w \in Workers : \A j \in JobIds :
       (job[j].lock_token # NULL /\ worker[w].pc = "fill") =>
         j \notin NextJobs(WorkerQueue(w), Concurrency(w))

\* a job is RUNNING under a lock token while another worker is about to lease
C8_Witness ==
  \E j \in JobIds, w \in Workers :
    /\ job[j].status = "RUNNING"
    /\ job[j].lock_token # NULL
    /\ worker[w].pc = "fill"
    /\ worker[w].activeJobs = {}

\* C9: from RUNNING the next status is COMPLETED, FAILED or STALLED, and from
\* STALLED the next status is PENDING or FAILED.
C9_TransitionRelation ==
  [][\A j \in JobIds :
       /\ job[j].status = "RUNNING" =>
            job'[j].status \in {"RUNNING", "COMPLETED", "FAILED", "STALLED"}
       /\ job[j].status = "STALLED" =>
            job'[j].status \in {"STALLED", "PENDING", "FAILED"}]_vars

\* C9, the STALLED half: a STALLED job's next status is only PENDING or FAILED;
\* it never becomes COMPLETED or RUNNING directly.
C9_StalledSuccessors ==
  [][\A j \in JobIds :
       job[j].status = "STALLED" =>
         job'[j].status \in {"STALLED", "PENDING", "FAILED"}]_vars

C3_PauseSafety ==
  [][\A j \in JobIds :
       (job[j].id = 0 /\ job'[j].id # 0) => queue[job'[j].queue_id].status # "PAUSED"]_vars

\* C10: retention bound.  The surviving job_log rows of a job with keep_logs = K
\* are min(total appends, K) many, and they are the rows with the K largest
\* sequences ever written.
C10_RetentionBound ==
  \A j \in JobIds :
    (Exists(j) /\ job[j].keep_logs >= 1) =>
      LET K == job[j].keep_logs
          n == hist.appends[j]
          all == hist.logged[j]
      IN /\ Cardinality(jobLog[j]) = (IF n < K THEN n ELSE K)
         /\ jobLog[j] = {x \in all : Cardinality({y \in all : y > x}) < K}

\* more appends than keep_logs have committed while another addLog is in flight
C10_Witness ==
  \E j \in JobIds :
    /\ hist.appends[j] > job[j].keep_logs
    /\ job[j].keep_logs = MaxKeepLogs
    /\ \E c \in LogCallers : logCall[c].pc = "read" /\ logCall[c].job = j

\* C11: dense sequences.  The sequences ever written for a job are 1..n without
\* gap or duplicate, every addLog call in flight has been assigned n + 1, and the
\* surviving rows are a contiguous range that ends at n.
C11_DenseSequences ==
  \A j \in JobIds :
    LET n == hist.appends[j]
    IN /\ hist.logged[j] = 1..n
       /\ \A c \in LogCallers :
            (logCall[c].pc = "read" /\ logCall[c].job = j) => logCall[c].sequence = n + 1
       /\ \E lo \in 1..(n + 1) : jobLog[j] = lo..n

\* rows have been trimmed and a further addLog has its sequence assigned
C11_Witness ==
  \E j \in JobIds, c \in LogCallers :
    /\ hist.appends[j] >= 3
    /\ 1 \notin jobLog[j]
    /\ logCall[c].pc = "read"
    /\ logCall[c].job = j
    /\ logCall[c].sequence = 4

\* C12: priority within batch.  The rows a lease call returns, which the worker
\* dispatches in that order, are sorted by priority, then created_at, then id.
C12_BatchSorted ==
  \A w \in Workers :
    \A i, k \in DOMAIN hist.batch[w] :
      i < k => Before(hist.batch[w][i], hist.batch[w][k])

\* C13: bounded concurrency.  A worker's active-job set has at most
\* concurrency elements, the worker has at most concurrency dispatched tasks in
\* flight, and a lease call selects at most concurrency minus the active count.
C13_BoundedConcurrency ==
  \A w \in Workers :
    /\ Cardinality(worker[w].activeJobs) <= Concurrency(w)
    /\ Cardinality({t \in tasks : t.worker = w}) <= Concurrency(w)
    /\ Cardinality(worker[w].sel) <= Concurrency(w) - Cardinality(worker[w].activeJobs)

\* C14: while the persisted status of a queue is PAUSED, a worker's lease query
\* selects no job of the queue, so no job goes from PENDING to RUNNING.
C14_NoLeaseWhilePaused ==
  [][\A w \in Workers :
       (queue[WorkerQueue(w)].status = "PAUSED" /\ worker[w].pc = "fill") =>
         worker'[w].pc # "leasing"]_vars

\* C15: cancelling is permitted only for PENDING jobs.  A moveToCancelled that
\* changes the job row acts on a row whose status is PENDING.
C15_CancelOnlyPending ==
  [][\A j \in JobIds : ClientCancel(j) => job[j].status = "PENDING"]_vars

\* C16: stall sweep.  markStalledJobs on a queue turns exactly the unlocked
\* RUNNING jobs of that queue with an old processed_on into STALLED with
\* lock_token NULL and leaves every other job row as it was.
C16_StallSweepFrame ==
  [][\A h \in Handles :
       QueueMarkStalled(h) =>
         \A j \in JobIds :
           job'[j] =
             IF /\ job[j].status = "RUNNING"
                /\ job[j].processed_on = OLD
                /\ job[j].queue_id = HandleQueue(h)
                /\ ~rowLock[j]
               THEN [job[j] EXCEPT !.status = "STALLED", !.lock_token = NULL]
               ELSE job[j]]_vars

\* a job of queue 1 has been marked STALLED while a job of queue 2 is RUNNING
\* with an old processed_on
C16_Witness ==
  \E j, k \in JobIds :
    /\ job[j].status = "STALLED"
    /\ job[j].lock_token = NULL
    /\ job[j].queue_id = 1
    /\ job[k].status = "RUNNING"
    /\ job[k].processed_on = OLD
    /\ job[k].queue_id = 2

\* C17: retryStalledJobs on a queue moves exactly the STALLED jobs of that queue
\* to PENDING with lock_token NULL, where the lease query selects them, and
\* changes no other job row; without a STALLED job it changes nothing.
C17_RetryStalledFrame ==
  [][\A h \in Handles :
       QueueRetryStalled(h) =>
         /\ \A j \in JobIds :
              IF job[j].status = "STALLED" /\ job[j].queue_id = HandleQueue(h)
                THEN /\ job'[j] = [job[j] EXCEPT !.status = "PENDING", !.lock_token = NULL]
                     /\ Leasable(j, HandleQueue(h))'
                ELSE job'[j] = job[j]
         /\ (\A j \in JobIds : job[j].status # "STALLED") => job' = job]_vars

\* a job of queue 1 is PENDING again after a lease while a job of queue 2 is
\* still STALLED
C17_Witness ==
  \E j, k \in JobIds :
    /\ job[j].status = "PENDING"
    /\ job[j].queue_id = 1
    /\ hist.leases[j] >= 1
    /\ job[k].status = "STALLED"
    /\ job[k].queue_id = 2

\* C18: resume, after a pause or not, leaves the queue row ACTIVE with paused_at
\* NULL and the calling handle ACTIVE; pause leaves the row and the handle
\* PAUSED; a second pause or a second resume does not change the status.
C18_PauseResume ==
  [][\A h \in Handles :
       LET q == HandleQueue(h)
       IN /\ Resume(h) =>
               /\ queue'[q].status = "ACTIVE" /\ queue'[q].paused_at = NULLS
               /\ handle'[h].status = "ACTIVE"
               /\ queue[q].status = "ACTIVE" => queue'[q] = queue[q]
          /\ Pause(h) =>
               /\ queue'[q].status = "PAUSED"
               /\ queue'[q].paused_at # NULLS
               /\ handle'[h].status = "PAUSED"
               /\ queue[q].status = "PAUSED" => queue'[q].status = queue[q].status]_vars

\* handle 2 has paused the queue and handle 1 has resumed it
C18_Witness ==
  /\ queue[1].status = "ACTIVE" /\ queue[1].paused_at = NULLS
  /\ handle[1].queueId = 1 /\ handle[1].status = "ACTIVE"
  /\ handle[2].queueId = 1 /\ handle[2].status = "PAUSED"

\* C19: progress.  With one running worker and executions that all return, every
\* job added is eventually leased and eventually COMPLETED or FAILED, also when
\* more jobs are pending than the worker has slots.
C19_Progress ==
  \A j \in JobIds :
    /\ Exists(j) ~> (hist.leases[j] >= 1)
    /\ Exists(j) ~> (job[j].status \in {"COMPLETED", "FAILED"})

\* two jobs have been settled by the worker of concurrency 1 in two lease calls,
\* one of them after a retry
C19_Witness ==
  /\ \A j \in JobIds : job[j].status \in {"COMPLETED", "FAILED"}
  /\ hist.grantToken[1] # hist.grantToken[2]
  /\ \E j \in JobIds : job[j].attempts_made = 2

\* C20: after stop() has been called on a worker, that worker begins no lease
\* query that selects a job, so no job is moved to RUNNING under its token.
C20_NoLeaseAfterStop ==
  [][\A w \in Workers :
       (hist.stopped[w] /\ worker[w].pc = "fill") => worker'[w].pc # "leasing"]_vars

\* C21: no new_job notification is lost.  A running worker never sits in the
\* sleep, waiting for the poll timer, while a notification has reached it
\* after which it has begun no lease query.
C21_NoNotificationLost ==
  \A w \in Workers :
    ~(worker[w].pc = "sleep" /\ worker[w].running /\ hist.notice[w])
\* C22 as stated: Queue.add with a customId that an existing job of any queue
\* has throws, inserts no job row, publishes no new_job notification and
\* leaves the job table and the queue table as they were.
C22_CollisionChangesNothing ==
  [][\A h \in Handles, c \in CustomIdChoices :
       (/\ c # UNDEF
        /\ \E j \in JobIds : Exists(j) /\ job[j].custom_id = c
        /\ AddWithOptions(h, DefaultPriority, DefaultMaxAttempts, c)) =>
         /\ handle'[h].error # "none"
         /\ job' = job
         /\ hist'.published = hist.published
         /\ queue' = queue]_vars

\* C22: Queue.add with a customId that an existing job of any queue has
\* throws, inserts no job row, publishes no new_job notification and leaves
\* every job row and every queue row that exists unchanged; the row of the
\* Queue object's own queue is created (ACTIVE) when there was none.
C22_CollisionKeepsExistingRows ==
  [][\A h \in Handles, c \in CustomIdChoices :
       (/\ c # UNDEF
        /\ \E j \in JobIds : Exists(j) /\ job[j].custom_id = c
        /\ AddWithOptions(h, DefaultPriority, DefaultMaxAttempts, c)) =>
         /\ handle'[h].error # "none"
         /\ job' = job
         /\ hist'.published = hist.published
         /\ \A q \in Queues : queue[q] # NoQueue => queue'[q] = queue[q]
         /\ queue'[HandleQueue(h)] # NoQueue]_vars

\* an add has failed on a colliding custom id, and in doing so has created
\* the row of queue 2, which holds no job
C22_Witness ==
  /\ handle[3].error = "collision"
  /\ queue[2].status = "ACTIVE"
  /\ \E j \in JobIds : Exists(j) /\ job[j].custom_id # NULL
  /\ \A j \in JobIds : Exists(j) => job[j].queue_id = 1
\* C23: moveToFailed retries exactly when the job row's attempts_made is less
\* than its max_attempts: then the row becomes PENDING, attempts_made keeps
\* its value and new_job is published; otherwise the row becomes FAILED with
\* failed_reason, stack_trace, the exit code passed and finished_on written,
\* and nothing is published.
C23_RetryDecidedByRow ==
  [][\A t \in tasks :
       (t.pc = "locked" /\ t.res # 0 /\ TaskCommit(t)) =>
         LET row == job[t.job]
             new == job'[t.job]
         IN IF row.attempts_made < row.max_attempts
              THEN /\ new.status = "PENDING"
                   /\ new.attempts_made = row.attempts_made
                   /\ hist'.published = hist.published + 1
              ELSE /\ new.status = "FAILED"
                   /\ new.failed_reason = "error"
                   /\ new.stack_trace = "stack"
                   /\ t.res # UNDEF => new.exit_code = t.res
                   /\ new.finished_on = RECENT
                   /\ hist'.published = hist.published]_vars
\* C24: the lock token proves ownership.  The moveToCompleted or moveToFailed
\* of a worker's task changes a job row only if the row is RUNNING with the
\* lock_token under which the task's worker leased it; otherwise the row
\* stays as it is.
C24_TokenProvesOwnership ==
  [][\A t \in tasks :
       (/\ t.pc = "locked"
        /\ job[t.job].status # "RUNNING" \/ job[t.job].lock_token # t.token
        /\ TaskCommit(t)) => job'[t.job] = job[t.job]]_vars
\* C25: Job.retry on a FAILED job resets the row to PENDING with lock_token,
\* finished_on, failed_reason, stack_trace and exit_code NULL, and the job is
\* leased, and so executed, again afterwards.
C25_RetryLeadsToLease ==
  /\ [][\A j \in JobIds :
          (job[j].status = "FAILED" /\ JobRetry(j)) =>
            /\ job'[j].status = "PENDING"
            /\ job'[j].lock_token = NULL
            /\ job'[j].finished_on = NULLS
            /\ job'[j].failed_reason = NULLS
            /\ job'[j].stack_trace = NULLS
            /\ job'[j].exit_code = NULL]_vars
  /\ \A j \in JobIds, k \in 0..MaxLeases :
       (hist.retried[j] = k) ~> (hist.leases[j] > k)
\* C26: a job whose final attempt ends by a timeout or a thrown executor
\* error (no exit code) is FAILED with exit_code NULL, whatever exit codes
\* its earlier attempts produced.
C26_NoExitCodeOnThrow ==
  [][\A t \in tasks :
       (t.pc = "locked" /\ t.res = UNDEF /\ TaskCommit(t)
          /\ job'[t.job].status = "FAILED") => job'[t.job].exit_code = NULL]_vars
\* C27: after moveToFailed has taken the retry branch the job row is PENDING
\* with lock_token, processed_on, finished_on, failed_reason and stack_trace
\* all NULL, whatever the row held before.
C27_RetryBranchClearsFields ==
  [][\A t \in tasks :
       (t.pc = "locked" /\ t.res # 0 /\ ShouldRetry(t.obj) /\ TaskCommit(t)) =>
         /\ job'[t.job].status = "PENDING"
         /\ job'[t.job].lock_token = NULL
         /\ job'[t.job].processed_on = NULLS
         /\ job'[t.job].finished_on = NULLS
         /\ job'[t.job].failed_reason = NULLS
         /\ job'[t.job].stack_trace = NULLS]_vars
\* C28: moveToRunning succeeds only on a job whose persisted status is
\* PENDING; on a job in any other status it fails and leaves the row, with
\* its attempts_made and lock_token, unchanged.
C28_MoveToRunningOnlyPending ==
  [][\A j \in JobIds :
       (job[j].status # "PENDING" /\ ClientMoveToRunning(j)) => job'[j] = job[j]]_vars
\* C29: moveToCompleted succeeds only on a job whose persisted status is
\* RUNNING, and then sets status COMPLETED, exit_code, finished_on and
\* lock_token NULL; on a job in any other status it leaves the row unchanged.
C29_MoveToCompletedOnlyRunning ==
  [][\A t \in tasks :
       (t.pc = "locked" /\ t.res = 0 /\ TaskCommit(t)) =>
         IF job[t.job].status = "RUNNING"
           THEN /\ job'[t.job].status = "COMPLETED"
                /\ job'[t.job].exit_code = t.res
                /\ job'[t.job].finished_on = RECENT
                /\ job'[t.job].lock_token = NULL
           ELSE job'[t.job] = job[t.job]]_vars
\* C30: a lease call with n free slots selects exactly the min(n, available)
\* jobs that are smallest under (priority, created_at, id) among the jobs of
\* the worker's own queue that are PENDING, without lock token and not
\* locked by another transaction: no such job left behind precedes a
\* selected one, and no job of another queue is selected.
C30_LeaseSelection ==
  [][\A w \in Workers :
       (worker[w].pc = "fill" /\ FillConcurrency(w)) =>
         LET n == Concurrency(w) - Cardinality(worker[w].activeJobs)
             avail == {j \in JobIds : /\ job[j].id # 0
                                       /\ job[j].queue_id = WorkerQueue(w)
                                       /\ job[j].status = "PENDING"
                                       /\ job[j].lock_token = NULL
                                       /\ ~rowLock[j]}
             sel == IF worker'[w].pc = "leasing" THEN worker'[w].sel ELSE {}
         IN /\ sel \subseteq avail
            /\ Cardinality(sel) = IF n < Cardinality(avail) THEN n ELSE Cardinality(avail)
            /\ \A k \in sel : job[k].queue_id = WorkerQueue(w) /\ rowLock'[k]
            /\ \A j \in avail \ sel, k \in sel :
                 \/ job[k].priority < job[j].priority
                 \/ job[k].priority = job[j].priority /\ k < j]_vars

\* a lease query with one free slot has selected the later of two available
\* jobs of the queue because its priority value is smaller; the earlier one
\* is left behind
C30_Witness ==
  \E w \in Workers, j, k \in JobIds :
    /\ worker[w].pc = "leasing"
    /\ worker[w].sel = {j}
    /\ k < j
    /\ job[k].status = "PENDING" /\ job[k].queue_id = WorkerQueue(w) /\ ~rowLock[k]
    /\ job[j].priority < job[k].priority
\* C31: for each leased job the worker emits jobStarted once and, when the
\* dispatched task is over, exactly one of jobCompleted and jobFailed; the
\* terminal event comes with the commit of moveToCompleted or moveToFailed,
\* and jobCompleted only for an execution whose exit code was 0.
C31_OneTerminalEvent ==
  /\ [](\A j \in JobIds :
          hist.started[j] = hist.completed[j] + hist.failed[j] + Cardinality(TasksOf(j)))
  /\ [][\A j \in JobIds :
          /\ hist'.completed[j] # hist.completed[j] =>
               \E t \in tasks : t.job = j /\ t.res = 0 /\ t.pc = "locked" /\ TaskCommit(t)
          /\ hist'.failed[j] # hist.failed[j] =>
               \E t \in tasks : t.job = j /\ t.res # 0 /\ t.pc = "locked" /\ TaskCommit(t)]_vars
\* C32: every dispatched task releases its slot when it settles, and a
\* worker's active-job set is always the set of the jobs whose dispatched
\* task on that worker has not settled yet.
C32_ActiveJobsAreUnsettledTasks ==
  \A w \in Workers :
    worker[w].activeJobs = {j \in JobIds : \E t \in tasks : t.worker = w /\ t.job = j}
\* C33: when the SSH connect fails or testConnection reports false, start
\* rejects and changes no job row; the worker never subscribes to new_job
\* (no notification reaches it), and never runs retryStalledJobs, the stall
\* sweep or a lease query.
C33_FailedStartDoesNothing ==
  [][\A w \in Workers :
       /\ WorkerConnectFails(w) => (worker'[w].pc = "rejected" /\ job' = job)
       /\ worker[w].pc = "rejected" =>
            /\ worker'[w] = worker[w]
            /\ hist'.notice[w] = hist.notice[w]
            /\ ~WorkerRetryStalled(w) /\ ~Sweep(w) /\ ~Notification(w)
            /\ ~FillConcurrency(w) /\ ~LeaseUpdate(w)
            /\ \A t \in tasks' : t.worker # w]_vars

\* the start of worker 1 was rejected while worker 2 runs and a job of their
\* queue is STALLED, which a start of worker 1 that went on would reset
C33_Witness ==
  /\ worker[1].pc = "rejected"
  /\ worker[2].running
  /\ \E j \in JobIds : job[j].status = "STALLED" /\ job[j].queue_id = WorkerQueue(1)
\* C34: an error thrown by the stall sweep or by the lease query does not
\* stop the worker: the running flag stays true, start does not return and no
\* job row changes, and the loop goes on to a stall sweep and a lease query.
C34_LoopSurvivesErrors ==
  /\ [][\A w \in Workers :
          (SweepThrows(w) \/ LeaseThrows(w)) =>
            /\ worker'[w].running
            /\ worker'[w].pc = "loop"
            /\ job' = job]_vars
  /\ \A w \in Workers, k \in 1..MaxThrows :
       (hist.thrown[w] = k /\ worker[w].pc = "loop") ~> (worker[w].pc \in {"leasing", "sleep"})

\* after two thrown iterations the worker has swept, leased a job and sleeps
C34_Witness ==
  /\ hist.thrown[2] = MaxThrows
  /\ worker[2].pc = "sleep"
  /\ worker[2].running
  /\ \E t \in tasks : t.worker = 2 /\ job[t.job].status = "RUNNING"
\* C35: the remote executor changes no database state: no job_log row is
\* written, and no job row is locked, by a call made from executeJob.
C35_ExecutorWritesNothing ==
  /\ [][\A c \in LogCallers :
          AddLogCommit(c) => (logCall[c].token = NULL /\ jobLog' = jobLog)]_vars
  /\ [](\A c \in LogCallers :
          logCall[c].pc \in {"locked", "read"} => logCall[c].token = NULL)
\* C40: a job_log row produced by an attempt's output callbacks is appended
\* only while that attempt is in progress, that is while the task of that
\* lease has not yet settled the job.
C40_NoLogAfterSettle ==
  [][\A c \in LogCallers :
       (AddLogCommit(c) /\ logCall[c].token # NULL)
         => \E t \in tasks : t.token = logCall[c].token /\ t.job = logCall[c].job]_vars
\* C37: after stop() has been called on a worker, at whatever point of
\* start() or of a loop iteration, the loop eventually exits and start()
\* returns.
C37_StopLeadsToExit ==
  \A w \in Workers : hist.stopped[w] ~> (worker[w].pc = "done")
\* C36: option merge at insertion.  The row created by Queue.add holds, for
\* priority, maxAttempts and keepLogs, the override of the call when one is
\* given, otherwise the value of the default_job_options stored for the
\* queue, otherwise the built-in default (0, 1, 50); the row is PENDING with
\* attempts_made 0 and lock_token NULL.
C36_OptionMerge ==
  [][\A h \in Handles, o \in OptionChoices :
       (AddMerged(h, o) /\ job' # job) =>
         LET row == job'[NextJobId]
             stored == queue'[HandleQueue(h)].default_job_options
             Pick(given, kept, builtIn) ==
               IF given # UNDEF THEN given ELSE IF kept # UNDEF THEN kept ELSE builtIn
         IN /\ row.priority = Pick(o.priority, stored.priority, DefaultPriority)
            /\ row.max_attempts = Pick(o.maxAttempts, stored.maxAttempts, DefaultMaxAttempts)
            /\ row.keep_logs = Pick(o.keepLogs, stored.keepLogs, DefaultKeepLogs)
            /\ row.status = "PENDING"
            /\ row.attempts_made = 0
            /\ row.lock_token = NULL]_vars
\* C38: a new_job notification for a job, published by Queue.add or by the
\* retry branch of moveToFailed, is published only once the transaction that
\* makes the job a PENDING row has committed and released its row lock.
C38_PublishedAfterCommit ==
  [][/\ \A h \in Handles, p \in PriorityChoices, m \in MaxAttemptsChoices :
          AddInsert(h, p, m) =>
            (job'[NextJobId].status = "PENDING" /\ ~rowLock'[NextJobId])
     /\ \A t \in tasks :
          TaskNotify(t) => (job'[t.job].status = "PENDING" /\ ~rowLock'[t.job])]_vars
\* C39: terminal statuses are absorbing for worker operations.  Once the row
\* of a job is COMPLETED, FAILED or CANCELLED, no lease, stall sweep,
\* retryStalledJobs, moveToCompleted or moveToFailed of any worker changes
\* its status.
C39_TerminalAbsorbing ==
  [][(\/ \E w \in Workers : LeaseUpdate(w) \/ Sweep(w) \/ WorkerRetryStalled(w)
      \/ \E t \in tasks : TaskCommit(t))
       => \A j \in JobIds :
            job[j].status \in {"COMPLETED", "FAILED", "CANCELLED"}
              => job'[j].status = job[j].status]_vars
====
